---- MODULE Spec2Model ----
\* A model of the webcache caching transport: the Cache-Control parser, the
\* freshness pipeline and Transport.RoundTrip over a key-value store.
\*
\* Header text is a sequence of symbols.  A symbol is either a separator
\* ("," or "="), a white space character, a sign ("+", "-"), a decimal digit,
\* or a word (a run of characters holding none of these, such as "max-age" or
\* "Max-Age").  Splitting acts on separators and trimming on white space, so
\* they behave on symbol sequences as strings.Split and strings.TrimSpace
\* behave on the text.
EXTENDS Integers, Sequences, FiniteSets, Bags, TLC

----------------------------------------------------------------------------
\* Bounds of the model.

\* The clock runs over 1..MaxTime (seconds).
MaxTime == 4

----------------------------------------------------------------------------
\* strings / strconv

\* The characters unicode.IsSpace accepts, which strings.TrimSpace strips:
\* tab, line feed, vertical tab, form feed, carriage return, space, U+0085,
\* U+00A0 and the other characters of the Unicode property White_Space.  A
\* character that has no escape in a string is named by its code point.
Space ==
    { "\t", "\n", "U+000B", "\f", "\r", " ", "U+0085", "U+00A0", "U+1680",
      "U+2000", "U+2001", "U+2002", "U+2003", "U+2004", "U+2005", "U+2006",
      "U+2007", "U+2008", "U+2009", "U+200A", "U+2028", "U+2029", "U+202F",
      "U+205F", "U+3000" }

RECURSIVE TrimLeft(_)
TrimLeft(s) ==
    IF s # <<>> /\ Head(s) \in Space THEN TrimLeft(Tail(s)) ELSE s

RECURSIVE TrimRight(_)
TrimRight(s) ==
    IF s # <<>> /\ s[Len(s)] \in Space
    THEN TrimRight(SubSeq(s, 1, Len(s) - 1)) ELSE s

TrimSpace(s) == TrimRight(TrimLeft(s))

\* strings.Split(s, sep) for a one-symbol separator: always at least one piece.
RECURSIVE SplitAcc(_, _, _)
SplitAcc(s, sep, cur) ==
    IF s = <<>> THEN <<cur>>
    ELSE IF Head(s) = sep THEN <<cur>> \o SplitAcc(Tail(s), sep, <<>>)
    ELSE SplitAcc(Tail(s), sep, Append(cur, Head(s)))

Split(s, sep) == SplitAcc(s, sep, <<>>)

Digits == {"0", "1", "2", "3", "4", "5", "6", "7", "8", "9"}

DigitValue(d) ==
    CASE d = "0" -> 0 [] d = "1" -> 1 [] d = "2" -> 2 [] d = "3" -> 3
      [] d = "4" -> 4 [] d = "5" -> 5 [] d = "6" -> 6 [] d = "7" -> 7
      [] d = "8" -> 8 [] d = "9" -> 9

RECURSIVE DecimalValue(_, _)
DecimalValue(s, acc) ==
    IF s = <<>> THEN acc ELSE DecimalValue(Tail(s), 10 * acc + DigitValue(Head(s)))

\* strconv.Atoi: an optional sign and at least one digit, nothing else.  The
\* texts of the model have at most two digits, far from the int range.
Atoi(s) ==
    LET signed == s # <<>> /\ Head(s) \in {"+", "-"}
        body   == IF signed THEN Tail(s) ELSE s
    IN  IF body = <<>> \/ \E i \in 1..Len(body) : body[i] \notin Digits
        THEN [err |-> TRUE, v |-> 0]
        ELSE [err |-> FALSE,
              v   |-> IF signed /\ Head(s) = "-"
                      THEN 0 - DecimalValue(body, 0)
                      ELSE DecimalValue(body, 0)]

----------------------------------------------------------------------------
\* Times and date headers.  A time is a number of seconds; ZeroTime is Go's
\* zero time.Time, the instant for which IsZero() holds.  A date header value
\* is absent (the empty text), an HTTP-date naming a time, or other text.

ZeroTime == 0

NoDate == [text |-> "", sec |-> 0]

GarbageDate == [text |-> "garbage", sec |-> 0]

HTTPDate(t) == [text |-> "http-date", sec |-> t]

\* http.ParseTime on a header value.
ParseTime(v) ==
    IF v.text = "http-date" THEN [err |-> FALSE, t |-> v.sec]
    ELSE [err |-> TRUE, t |-> ZeroTime]

timeFromHeader(h, key) == ParseTime(h[key])

expiresFromHeader(h) == timeFromHeader(h, "Expires")

dateFromHeader(h) == timeFromHeader(h, "Date")

ageFromHeader(h) == Atoi(h["Age"])

----------------------------------------------------------------------------
\* Cache-Control parsing.  A CacheControl is a function from directive names
\* (symbol sequences) to values (symbol sequences).

cacheControlKeyMaxAge == <<"max-age">>

cacheControlKeyPublic == <<"public">>

cacheControlKeyPrivate == <<"private">>

EmptyCacheControl == [k \in {} |-> <<>>]

\* cc[key] = val on a Go map.
MapSet(cc, key, val) ==
    [k \in DOMAIN cc \cup {key} |-> IF k = key THEN val ELSE cc[k]]

splitCacheControl(s) == Split(TrimSpace(s), ",")

splitCacheControlKeyValue(s) == Split(TrimSpace(s), "=")

\* The body of the innermost loop of newCacheControl, for one token.
AddDirective(cc, token) ==
    LET kv == splitCacheControlKeyValue(token)
    IN  IF Len(kv) = 2 THEN MapSet(cc, kv[1], kv[2])
        ELSE IF Len(kv) = 1 THEN MapSet(cc, kv[1], <<>>)
        ELSE cc

RECURSIVE AddDirectives(_, _)
AddDirectives(cc, tokens) ==
    IF tokens = <<>> THEN cc
    ELSE AddDirectives(AddDirective(cc, Head(tokens)), Tail(tokens))

RECURSIVE AddOccurrences(_, _)
AddOccurrences(cc, values) ==
    IF values = <<>> THEN cc
    ELSE AddOccurrences(AddDirectives(cc, splitCacheControl(Head(values))),
                        Tail(values))

\* h["Cache-Control"] is the sequence of the header's occurrences.
newCacheControl(h) == AddOccurrences(EmptyCacheControl, h["Cache-Control"])

MaxAge(c) ==
    IF cacheControlKeyMaxAge \notin DOMAIN c THEN [err |-> TRUE, v |-> 0]
    ELSE Atoi(c[cacheControlKeyMaxAge])

Public(c) == cacheControlKeyPublic \in DOMAIN c

Private(c) == cacheControlKeyPrivate \in DOMAIN c

\* The accessors below are called by the transport and the pipeline; their
\* bodies follow the design document (4.1, 4.4, 9).
IsPresent(c) == DOMAIN c # {}

NoStore(c) == <<"no-store">> \in DOMAIN c

NoCache(c) == <<"no-cache">> \in DOMAIN c

NoCacheEquivalent(c) ==
    /\ ~MaxAge(c).err
    /\ MaxAge(c).v <= 0
    /\ (<<"must-revalidate">> \in DOMAIN c \/ <<"proxy-revalidate">> \in DOMAIN c)

----------------------------------------------------------------------------
\* Freshness.

FreshnessFresh == "Fresh"

FreshnessStale == "Stale"

FreshnesTransparent == "Transparent"

\* freshnessFromMaxAge with the comparison turned round: Stale until
\* Date + max-age, Fresh from then on.
freshnessFromMaxAge_Before(maxAge, responseDated, now) ==
    IF maxAge <= 0 THEN FreshnessStale
    ELSE IF responseDated = ZeroTime THEN FreshnessStale
    ELSE IF now < responseDated + maxAge THEN FreshnessStale
    ELSE FreshnessFresh

\* clock.Now().After(d + maxAge s) is the strict comparison now > d + maxAge.
freshnessFromMaxAge(maxAge, responseDated, now) ==
    IF maxAge <= 0 THEN FreshnessStale
    ELSE IF responseDated = ZeroTime THEN FreshnessStale
    ELSE IF now > responseDated + maxAge THEN FreshnessStale
    ELSE FreshnessFresh

\* freshnessFromExpire without the zero time test.
freshnessFromExpire_NoZeroTest(expireTime, responseDated) ==
    IF expireTime < responseDated THEN FreshnessStale ELSE FreshnessFresh

freshnessFromExpire(expireTime, responseDated) ==
    IF expireTime = ZeroTime THEN FreshnesTransparent
    ELSE IF expireTime < responseDated THEN FreshnessStale
    ELSE FreshnessFresh

\* freshnessFromAge with a closed window: an Age equal to max-age is fresh.
freshnessFromAge_Closed(age, maxAge) ==
    IF maxAge - age >= 0 THEN FreshnessFresh ELSE FreshnessStale

freshnessFromAge(age, maxAge) ==
    IF maxAge - age > 0 THEN FreshnessFresh ELSE FreshnessStale

\* The checkers of the chain, innermost first.  A checker returns a Freshness
\* and an error.
Checked(freshness) == [freshness |-> freshness, err |-> FALSE]

\* transparentFreshness answering Stale at the end of the chain.
transparentFreshness_Stale(header, cacheControlHeader, now) ==
    Checked(FreshnessStale)

transparentFreshness(header, cacheControlHeader, now) ==
    Checked(FreshnesTransparent)

\* expireFreshnessChecker comparing Expires with the zero time that
\* dateFromHeader returns beside its error.
expireFreshnessChecker_IgnoresDateError(header, cacheControlHeader, now) ==
    LET expires == expiresFromHeader(header)
        date    == dateFromHeader(header)
    IN  IF expires.err THEN transparentFreshness(header, cacheControlHeader, now)
        ELSE Checked(freshnessFromExpire(expires.t, date.t))

expireFreshnessChecker(header, cacheControlHeader, now) ==
    LET expires == expiresFromHeader(header)
        date    == dateFromHeader(header)
    IN  IF expires.err THEN transparentFreshness(header, cacheControlHeader, now)
        ELSE IF date.err THEN transparentFreshness(header, cacheControlHeader, now)
        ELSE Checked(freshnessFromExpire(expires.t, date.t))

maxAgeFreshnessChecker(header, cacheControlHeader, now) ==
    LET maxAge == MaxAge(cacheControlHeader)
        date   == dateFromHeader(header)
    IN  IF maxAge.err THEN expireFreshnessChecker(header, cacheControlHeader, now)
        ELSE IF date.err THEN expireFreshnessChecker(header, cacheControlHeader, now)
        ELSE Checked(freshnessFromMaxAge(maxAge.v, date.t, now))

ageFreshnessChecker(header, cacheControlHeader, now) ==
    LET maxAge == MaxAge(cacheControlHeader)
        age    == ageFromHeader(header)
    IN  IF maxAge.err THEN maxAgeFreshnessChecker(header, cacheControlHeader, now)
        ELSE IF age.err THEN maxAgeFreshnessChecker(header, cacheControlHeader, now)
        ELSE Checked(freshnessFromAge(age.v, maxAge.v))

\* noCacheFreshness without its two tests: every response goes on to the
\* Age stage.
noCacheFreshness_SkipsTests(header, cacheControlHeader, now) ==
    ageFreshnessChecker(header, cacheControlHeader, now)

noCacheFreshness(header, cacheControlHeader, now) ==
    IF NoCache(cacheControlHeader) THEN Checked(FreshnessStale)
    ELSE IF NoCacheEquivalent(cacheControlHeader) THEN Checked(FreshnessStale)
    ELSE ageFreshnessChecker(header, cacheControlHeader, now)

\* newFreshnerChecker(clock).Freshness(ctx, header, cacheControlHeader), with
\* the clock reading now: the head of the chain.
newFreshnerChecker(header, cacheControlHeader, now) ==
    noCacheFreshness(header, cacheControlHeader, now)

\* The Freshness the chain returns.
Freshness(header, cacheControlHeader, now) ==
    newFreshnerChecker(header, cacheControlHeader, now).freshness

----------------------------------------------------------------------------
\* Requests, responses and the store.

StatusOK == 200

StatusNotModified == 304

\* A response header collection: "Cache-Control" holds the header's
\* occurrences, "Date", "Expires" and "Last-Modified" date header values,
\* "Age" a text, "Etag" and "X-Cache" a word ("" when the header is absent).
Header(cc, date, expires, age, etag, lastModified, xcache) ==
    ("Cache-Control" :> cc) @@ ("Date" :> date) @@ ("Expires" :> expires)
    @@ ("Age" :> age) @@ ("Etag" :> etag) @@ ("Last-Modified" :> lastModified)
    @@ ("X-Cache" :> xcache)

Response(status, header, body) ==
    [StatusCode |-> status, Header |-> header, Body |-> body]

\* A request header collection is a function from the names of the headers it
\* carries to their values.
NoHeaders == [n \in {} |-> ""]

Request(method, url, header) == [Method |-> method, URL |-> url, Header |-> header]

\* The requests of the callers: two resources, no conditional headers.
Requests ==
    { Request("GET", u, NoHeaders) : u \in {"http://example.com/a", "http://example.com/b"} }

\* buildCacheKey: the key is the request's identity, its method and URL.
buildCacheKey(r) == <<r.Method, r.URL>>

Keys == { buildCacheKey(r) : r \in Requests }

\* The store maps a key to <<>> (no entry) or <<entry>>.
EmptyCache == [k \in Keys |-> <<>>]

CacheGet(cache, r) == cache[buildCacheKey(r)]

CacheSet(cache, r, response) == [cache EXCEPT ![buildCacheKey(r)] = <<response>>]

CacheDelete(cache, r) == [cache EXCEPT ![buildCacheKey(r)] = <<>>]

withCacheHitHeader(h) == [h EXCEPT !["X-Cache"] = "HIT"]

isCached(r) == r.Header["X-Cache"] = "HIT"

\* One call of the outbound transport, rt.RoundTrip(req).  The origin's
\* answer is the outcome: a response, or an error and no response.
Fetch(req, outcome) ==
    [resp |-> IF outcome.err THEN <<>> ELSE outcome.resp,
     err  |-> outcome.err,
     sent |-> <<req>>]

----------------------------------------------------------------------------
\* The response validator (design document 4.3).

\* The conditional request: the caller's request with the stored entry's
\* validators attached, each only when the entry has it.
conditionalRequest(stored, r) ==
    LET etag == stored.Header["Etag"]
        lm   == stored.Header["Last-Modified"]
        h1   == IF etag # "" THEN ("If-None-Match" :> etag) @@ r.Header
                ELSE r.Header
        h2   == IF lm # NoDate THEN ("If-Modified-Since" :> lm) @@ h1 ELSE h1
    IN  Request(r.Method, r.URL, h2)

\* newResponseValidator(rt).Validate(stored, r): one fetch of the conditional
\* request; "not modified" yields the stored response tagged as a hit, any
\* other response is returned as it came, an error is returned as it came.
Validate(stored, r, outcome) ==
    LET f == Fetch(conditionalRequest(stored, r), outcome)
    IN  IF f.err THEN f
        ELSE IF f.resp[1].StatusCode = StatusNotModified
        THEN [f EXCEPT !.resp =
                 <<[stored EXCEPT !.Header = withCacheHitHeader(stored.Header)]>>]
        ELSE f

----------------------------------------------------------------------------
\* Transport.RoundTrip.  The result of a call is the response (<<>> for nil),
\* the error, the store after the call, the requests sent to the origin, the
\* operations performed on the store, and the path the call took.

Result(resp, err, cache, sent, ops, path) ==
    [resp |-> resp, err |-> err, cache |-> cache, sent |-> sent, ops |-> ops,
     path |-> path]

\* A variant of shouldStore that lacks the test of the private directive.
shouldStore_IgnoresPrivate(shouldCachePrivateResponses, cacheControl) ==
    IF ~IsPresent(cacheControl) THEN FALSE
    ELSE IF NoStore(cacheControl) THEN FALSE
    ELSE IF NoCache(cacheControl) \/ NoCacheEquivalent(cacheControl) THEN FALSE
    ELSE TRUE

\* The miss path's decision to store the fetched response.
shouldStore(shouldCachePrivateResponses, cacheControl) ==
    IF ~IsPresent(cacheControl) THEN FALSE
    ELSE IF NoStore(cacheControl) THEN FALSE
    ELSE IF NoCache(cacheControl) \/ NoCacheEquivalent(cacheControl) THEN FALSE
    ELSE IF ~shouldCachePrivateResponses /\ Private(cacheControl) THEN FALSE
    ELSE TRUE

\* A variant of roundTripMiss that stores the fetched response only when the
\* store still holds no entry for the request.
roundTripMiss_SetIfAbsent(cache, shouldCachePrivateResponses, r, outcome) ==
    LET f == Fetch(r, outcome)
    IN  IF f.err THEN Result(<<>>, TRUE, cache, f.sent, <<>>, "miss")
        ELSE IF /\ shouldStore(shouldCachePrivateResponses,
                               newCacheControl(f.resp[1].Header))
                /\ CacheGet(cache, r) = <<>>
        THEN Result(f.resp, FALSE, CacheSet(cache, r, f.resp[1]), f.sent,
                    <<"Set">>, "miss")
        ELSE Result(f.resp, FALSE, cache, f.sent, <<>>, "miss")

\* RoundTrip when the store has no entry for the request.
roundTripMiss(cache, shouldCachePrivateResponses, r, outcome) ==
    LET f == Fetch(r, outcome)
    IN  IF f.err THEN Result(<<>>, TRUE, cache, f.sent, <<>>, "miss")
        ELSE IF shouldStore(shouldCachePrivateResponses,
                            newCacheControl(f.resp[1].Header))
        THEN Result(f.resp, FALSE, CacheSet(cache, r, f.resp[1]), f.sent,
                    <<"Set">>, "miss")
        ELSE Result(f.resp, FALSE, cache, f.sent, <<>>, "miss")

\* A variant of freshCase that returns the stored response without the marker.
freshCase_Untagged(cache, response, r) ==
    Result(<<response>>, FALSE, cache, <<>>, <<>>, FreshnessFresh)

\* case FreshnessFresh
freshCase(cache, response, r) ==
    Result(<<[response EXCEPT !.Header = withCacheHitHeader(response.Header)]>>,
           FALSE, cache, <<>>, <<>>, FreshnessFresh)

\* A variant of staleCase that tests no-store before the validator's error.
staleCase_DeletesOnError(cache, response, r, outcome) ==
    LET cacheControl == newCacheControl(response.Header)
        v == Validate(response, r, outcome)
    IN  IF NoStore(cacheControl)
        THEN Result(v.resp, v.err, CacheDelete(cache, r), v.sent, <<"Delete">>,
                    FreshnessStale)
        ELSE IF v.err THEN Result(<<>>, TRUE, cache, v.sent, <<>>, FreshnessStale)
        ELSE IF isCached(v.resp[1])
        THEN Result(v.resp, FALSE, cache, v.sent, <<>>, FreshnessStale)
        ELSE Result(v.resp, FALSE, CacheSet(cache, r, v.resp[1]), v.sent,
                    <<"Set">>, FreshnessStale)

\* A variant of staleCase that lacks the no-store test.
staleCase_KeepsNoStore(cache, response, r, outcome) ==
    LET v == Validate(response, r, outcome)
    IN  IF v.err THEN Result(<<>>, TRUE, cache, v.sent, <<>>, FreshnessStale)
        ELSE IF isCached(v.resp[1])
        THEN Result(v.resp, FALSE, cache, v.sent, <<>>, FreshnessStale)
        ELSE Result(v.resp, FALSE, CacheSet(cache, r, v.resp[1]), v.sent,
                    <<"Set">>, FreshnessStale)

\* A variant of staleCase that lacks the isCached test.
staleCase_StoresValidated(cache, response, r, outcome) ==
    LET cacheControl == newCacheControl(response.Header)
        v == Validate(response, r, outcome)
    IN  IF v.err THEN Result(<<>>, TRUE, cache, v.sent, <<>>, FreshnessStale)
        ELSE IF NoStore(cacheControl)
        THEN Result(v.resp, FALSE, CacheDelete(cache, r), v.sent, <<"Delete">>,
                    FreshnessStale)
        ELSE Result(v.resp, FALSE, CacheSet(cache, r, v.resp[1]), v.sent,
                    <<"Set">>, FreshnessStale)

\* A variant of staleCase that validates with the caller's request as it came,
\* the stored response not being handed to the validator.
staleCase_PlainRequest(cache, response, r, outcome) ==
    LET cacheControl == newCacheControl(response.Header)
        f == Fetch(r, outcome)
        v == IF ~f.err /\ f.resp[1].StatusCode = StatusNotModified
             THEN [f EXCEPT !.resp =
                      <<[response EXCEPT !.Header = withCacheHitHeader(response.Header)]>>]
             ELSE f
    IN  IF v.err THEN Result(<<>>, TRUE, cache, v.sent, <<>>, FreshnessStale)
        ELSE IF NoStore(cacheControl)
        THEN Result(v.resp, FALSE, CacheDelete(cache, r), v.sent, <<"Delete">>,
                    FreshnessStale)
        ELSE IF isCached(v.resp[1])
        THEN Result(v.resp, FALSE, cache, v.sent, <<>>, FreshnessStale)
        ELSE Result(v.resp, FALSE, CacheSet(cache, r, v.resp[1]), v.sent,
                    <<"Set">>, FreshnessStale)

\* case FreshnessStale
staleCase(cache, response, r, outcome) ==
    LET cacheControl == newCacheControl(response.Header)
        v == Validate(response, r, outcome)
    IN  IF v.err THEN Result(<<>>, TRUE, cache, v.sent, <<>>, FreshnessStale)
        ELSE IF NoStore(cacheControl)
        THEN Result(v.resp, FALSE, CacheDelete(cache, r), v.sent, <<"Delete">>,
                    FreshnessStale)
        ELSE IF isCached(v.resp[1])
        THEN Result(v.resp, FALSE, cache, v.sent, <<>>, FreshnessStale)
        ELSE Result(v.resp, FALSE, CacheSet(cache, r, v.resp[1]), v.sent,
                    <<"Set">>, FreshnessStale)

\* A variant of transparentCase that fetches again when the fetch fails.
transparentCase_Retries(cache, response, r, outcome) ==
    LET f == Fetch(r, outcome)
    IN  Result(f.resp, f.err, cache, IF f.err THEN f.sent \o f.sent ELSE f.sent,
               <<>>, FreshnesTransparent)

\* default
transparentCase(cache, response, r, outcome) ==
    LET f == Fetch(r, outcome)
    IN  Result(f.resp, f.err, cache, f.sent, <<>>, FreshnesTransparent)

\* RoundTrip from its start to the point where it returns or calls the
\* outbound transport: the Get, and for an entry the classification and the
\* two cases that end the call without a fetch, the checker's error and
\* FreshnessFresh.  A call that goes on to fetch holds what the Get returned
\* and the case it is in: "miss", FreshnessStale or FreshnesTransparent.
beforeFetch(cache, now, r) ==
    LET got == CacheGet(cache, r)
    IN  IF got = <<>> THEN [done |-> FALSE, got |-> got, path |-> "miss"]
        ELSE LET cacheControl == newCacheControl(got[1].Header)
                 checked      == newFreshnerChecker(got[1].Header, cacheControl, now)
             IN  IF checked.err
                 THEN [done |-> TRUE, got |-> got,
                       result |-> Result(<<>>, TRUE, cache, <<>>, <<>>, "error")]
                 ELSE IF checked.freshness = FreshnessFresh
                 THEN [done |-> TRUE, got |-> got,
                       result |-> freshCase(cache, got[1], r)]
                 ELSE [done |-> FALSE, got |-> got, path |-> checked.freshness]

\* RoundTrip from the answer of the outbound transport to its return, for a
\* call that found got and is in the case path.  The store it writes is the
\* store at this point, cache, not the store its Get read.
afterFetch(cache, shouldCachePrivateResponses, path, got, r, outcome) ==
    CASE path = "miss" ->
             roundTripMiss(cache, shouldCachePrivateResponses, r, outcome)
      [] path = FreshnessStale -> staleCase(cache, got[1], r, outcome)
      [] OTHER -> transparentCase(cache, got[1], r, outcome)

----------------------------------------------------------------------------
\* The origin.  Cache-Control texts, as symbol sequences.

TextMaxAge2 == <<"max-age", "=", "2">>

TextMaxAge0 == <<"max-age", "=", "0">>

\* The comma is followed by a tab.
TextMaxAge0NoStore == <<"max-age", "=", "0", ",", "\t", "no-store">>

TextNoCache == <<"no-cache">>

TextMaxAge0MustRevalidate == <<"max-age", "=", "0", ",", " ", "must-revalidate">>

TextPrivateMaxAge2 == <<"private", ",", " ", "max-age", "=", "2">>

TextPublic == <<"public">>

\* A response with status 200 and one Cache-Control occurrence.
OK1(text, date, age, etag, lastModified, xcache, body) ==
    Response(StatusOK, Header(<<text>>, date, NoDate, age, etag, lastModified, xcache),
             body)

\* The responses the origin may give for the first resource.  Their Date is
\* second 1: a lifetime of 2 seconds has run out when the clock reads 3.
ResponsesA ==
    { OK1(TextMaxAge2, HTTPDate(1), <<>>, "345", NoDate, "", "new"),
      OK1(TextMaxAge2, HTTPDate(1), <<>>, "", NoDate, "HIT", "from-cdn"),
      OK1(TextMaxAge0, HTTPDate(1), <<>>, "123", NoDate, "", "etag"),
      OK1(TextMaxAge0, HTTPDate(1), <<>>, "", HTTPDate(1), "", "last-modified"),
      OK1(TextMaxAge0NoStore, HTTPDate(1), <<>>, "123", NoDate, "", "no-store-0"),
      OK1(TextNoCache, HTTPDate(1), <<>>, "", NoDate, "", "no-cache"),
      OK1(TextMaxAge0MustRevalidate, HTTPDate(1), <<>>, "", NoDate, "", "must-revalidate"),
      OK1(TextPrivateMaxAge2, HTTPDate(1), <<>>, "", NoDate, "", "private"),
      OK1(TextPublic, NoDate, <<>>, "", NoDate, "", "public"),
      Response(StatusOK, Header(<<>>, HTTPDate(1), NoDate, <<>>, "345", NoDate, ""),
               "no-cache-control"),
      Response(StatusNotModified, Header(<<>>, NoDate, NoDate, <<>>, "", NoDate, ""),
               "") }

\* The second resource has one representation, which the pipeline classifies
\* Fresh at every clock reading (its Expires is later than its Date); it is
\* there to tell the entries of two keys apart.
ResponsesB ==
    { Response(StatusOK,
               Header(<<TextPublic>>, HTTPDate(1), HTTPDate(2), <<>>, "", NoDate, ""),
               "other") }

OriginResponses(r) ==
    IF r.URL = "http://example.com/a" THEN ResponsesA ELSE ResponsesB

\* The bodies of the responses the tests put into the store.
StoredBodies == {"new", "etag", "last-modified", "no-store-0", "other"}

\* The outcomes of a fetch for r: a response, or a transport error.
Outcomes(r) ==
    { [err |-> FALSE, resp |-> <<o>>] : o \in OriginResponses(r) }
    \cup { [err |-> TRUE, resp |-> <<>>] }

----------------------------------------------------------------------------
\* The state machine.

VARIABLES
    cache,                        \* the store: key -> <<>> or <<entry>>
    clock,                        \* the reading of Clock.Now()
    shouldCachePrivateResponses,  \* the transport's option
    inflight,                     \* the calls that wait for the origin: a bag
    call,                         \* the step a RoundTrip call just took
    probe,                        \* a response put to the freshness pipeline
    parse,                        \* header texts put to newCacheControl
    arrivals,                     \* parity of the requests that keep arriving
    race                          \* the concurrent calls for one key

vars ==
    <<cache, clock, shouldCachePrivateResponses, inflight, call, probe, parse,
      arrivals, race>>

\* No response is put to the pipeline.
NoProbe ==
    [directives |-> <<>>, date |-> NoDate, expires |-> NoDate, age |-> <<>>,
     now |-> 0, checked |-> <<>>, replaced |-> "none", before |-> <<>>,
     seen |-> {}]

\* No text is put to the parser.
NoParse == [a |-> <<>>, b |-> <<>>, done |-> FALSE, ccA |-> <<>>, ccB |-> <<>>]

\* No calls run concurrently.
NoRace ==
    [pc |-> <<>>, got |-> <<>>, path |-> <<>>, fetched |-> <<>>, order |-> <<>>,
     wrote |-> <<>>, fetches |-> 0, lastWrite |-> 0, initial |-> <<>>]

\* The record of the step a call just took.  step is "sent" when the call
\* went on to fetch and now waits for the origin, "returned" when it
\* returned; path is the case of the call; now is the clock reading and
\* before the store at the step; got is what the call's Get returned;
\* fetched is the origin's answer.
NoCall ==
    [step |-> "none", path |-> "none", r |-> CHOOSE r \in Requests : TRUE,
     now |-> 0, got |-> <<>>, before |-> EmptyCache,
     fetched |-> <<>>, resp |-> <<>>, err |-> FALSE, sent |-> <<>>, ops |-> <<>>]

\* The goroutines of the embedding program that call the transport; each
\* waits for one fetch at a time.
Callers == {"c1", "c2"}

Init ==
    /\ cache = EmptyCache
    /\ clock = 1
    /\ shouldCachePrivateResponses \in BOOLEAN
    /\ inflight = EmptyBag
    /\ call = NoCall
    /\ probe = NoProbe
    /\ parse = NoParse
    /\ arrivals = 0
    /\ race = NoRace

\* A caller enters RoundTrip(r).  The call reads the store; on a Fresh entry
\* (or an error of the checker) it returns in this step, otherwise it calls
\* the outbound transport and waits, while other calls and the embedding
\* program go on.
RoundTripGet(r) ==
    /\ call = NoCall
    /\ \E b \in {beforeFetch(cache, clock, r)} :
         IF b.done
         THEN /\ cache' = b.result.cache
              /\ inflight' = inflight
              /\ call' = [step |-> "returned", path |-> b.result.path, r |-> r,
                          now |-> clock, got |-> b.got, before |-> cache,
                          fetched |-> <<>>, resp |-> b.result.resp,
                          err |-> b.result.err, sent |-> b.result.sent,
                          ops |-> b.result.ops]
         ELSE /\ BagCardinality(inflight) < Cardinality(Callers)
              /\ cache' = cache
              /\ inflight' =
                     inflight (+) SetToBag({[r |-> r, got |-> b.got, path |-> b.path]})
              /\ call' = [NoCall EXCEPT !.step = "sent", !.path = b.path, !.r = r,
                                        !.now = clock, !.got = b.got,
                                        !.before = cache]
    /\ UNCHANGED <<clock, shouldCachePrivateResponses, probe, parse, race>>

\* The origin answers the fetch of the waiting call c with outcome; the call
\* does its Set or Delete on the store as it is now, and returns.
RoundTripReturn(c, outcome) ==
    /\ call = NoCall
    /\ BagIn(c, inflight)
    /\ \E res \in {afterFetch(cache, shouldCachePrivateResponses, c.path, c.got,
                              c.r, outcome)} :
         /\ cache' = res.cache
         /\ inflight' = inflight (-) SetToBag({c})
         /\ call' = [step |-> "returned", path |-> res.path, r |-> c.r,
                     now |-> clock, got |-> c.got, before |-> cache,
                     fetched |-> <<outcome>>, resp |-> res.resp, err |-> res.err,
                     sent |-> res.sent, ops |-> res.ops]
    /\ UNCHANGED <<clock, shouldCachePrivateResponses, probe, parse, race>>

\* Any caller enters RoundTrip with any request.
DoRoundTrip ==
    /\ \E r \in Requests : RoundTripGet(r)
    /\ UNCHANGED arrivals

\* The origin answers any waiting call as it may.
OriginAnswers ==
    /\ \E c \in BagToSet(inflight) : \E outcome \in Outcomes(c.r) :
         RoundTripReturn(c, outcome)
    /\ UNCHANGED arrivals

\* The entries the embedding program puts into the store itself, as the
\* tests do before they call the transport: a Fresh one, Stale ones with a
\* validator, a Stale one that forbids storage.
StoreEntries(r) == { o \in OriginResponses(r) : o.Body \in StoredBodies }

\* HTTPCache.Set(r, response), called by the embedding program.
StoreSet ==
    /\ call = NoCall
    /\ \E r \in Requests : \E response \in StoreEntries(r) :
         cache' = CacheSet(cache, r, response)
    /\ UNCHANGED <<clock, shouldCachePrivateResponses, inflight, call, probe, parse,
                   arrivals, race>>

\* HTTPCache.Delete(r), called by the embedding program.
StoreDelete ==
    /\ call = NoCall
    /\ \E r \in Requests : cache' = CacheDelete(cache, r)
    /\ UNCHANGED <<clock, shouldCachePrivateResponses, inflight, call, probe, parse,
                   arrivals, race>>

\* The option CachePrivateResponse(v) applied to the transport in use.  (The
\* option WithClock applied to a transport in use assigns t.clock, which no
\* call reads: the checker keeps the clock NewTransport gave it.)
CachePrivateResponse ==
    /\ call = NoCall
    /\ \E v \in BOOLEAN : shouldCachePrivateResponses' = v
    /\ UNCHANGED <<cache, clock, inflight, call, probe, parse, arrivals,
                   race>>

\* Time passes.
Tick ==
    /\ call = NoCall
    /\ clock < MaxTime
    /\ clock' = clock + 1
    /\ UNCHANGED <<cache, shouldCachePrivateResponses, inflight, call, probe, parse, arrivals, race>>

\* The caller has taken note of the step of its call; the record is dropped.
\* The step changes nothing of the transport, the store or the clock, and
\* the other steps wait for it: every interleaving of the steps above
\* remains.
Noted ==
    /\ call # NoCall
    /\ call' = NoCall
    /\ UNCHANGED <<cache, clock, shouldCachePrivateResponses, inflight, probe, parse, arrivals, race>>

Next ==
    \/ DoRoundTrip
    \/ OriginAnswers
    \/ StoreSet
    \/ StoreDelete
    \/ CachePrivateResponse
    \/ Tick
    \/ Noted

Spec == Init /\ [][Next]_vars

\* RoundTrip calls alone, over a store that starts empty: the embedding
\* program neither touches the store nor changes the option.
NextCalls == DoRoundTrip \/ OriginAnswers \/ Tick \/ Noted

SpecCalls == Init /\ [][NextCalls]_vars

----------------------------------------------------------------------------
\* The freshness pipeline on its own: a response's headers are drawn, the
\* chain classifies them at a clock reading, and one of the values the chain
\* reads may then be replaced by a missing or an unparsable one.

TokenMaxAge2 == <<"max-age", "=", "2">>

TokenMaxAge1 == <<"max-age", "=", "1">>

TokenMaxAge0 == <<"max-age", "=", "0">>

TokenMaxAgeMinus1 == <<"max-age", "=", "-", "1">>

TokenMaxAgeText == <<"max-age", "=", "abc">>

\* The directive lists of the probed responses.
ProbeDirectives ==
    { <<>>,
      <<TokenMaxAge2>>, <<TokenMaxAge1>>, <<TokenMaxAge0>>, <<TokenMaxAgeMinus1>>, <<TokenMaxAgeText>>,
      <<<<"no-cache">>>>, <<TokenMaxAge2, <<"no-cache">>>>,
      <<TokenMaxAge0, <<"must-revalidate">>>>, <<TokenMaxAge2, <<"must-revalidate">>>>,
      <<<<"public">>>> }

ProbeDates == {NoDate, GarbageDate} \cup { HTTPDate(t) : t \in 0..MaxTime }

ProbeAges == { <<>>, <<"x">>, <<"1">>, <<"2">>, <<"5">>, <<"-", "1">> }

\* The text of one Cache-Control occurrence listing the tokens.
RECURSIVE JoinTokens(_)
JoinTokens(tokens) ==
    IF tokens = <<>> THEN <<>>
    ELSE IF Len(tokens) = 1 THEN tokens[1]
    ELSE tokens[1] \o <<",", " ">> \o JoinTokens(Tail(tokens))

\* The header collection of a probed response.
ProbeHeader(p) ==
    Header(IF p.directives = <<>> THEN <<>> ELSE <<JoinTokens(p.directives)>>,
           p.date, p.expires, p.age, "", NoDate, "")

\* What the chain returns for a probed response.
ProbeChecked(p) ==
    newFreshnerChecker(ProbeHeader(p), newCacheControl(ProbeHeader(p)), p.now)

InitFresh ==
    /\ cache = EmptyCache
    /\ clock = 1
    /\ shouldCachePrivateResponses = FALSE
    /\ inflight = EmptyBag
    /\ call = NoCall
    /\ parse = NoParse
    /\ arrivals = 0
    /\ race = NoRace
    /\ \E d \in ProbeDirectives, date \in ProbeDates, expires \in ProbeDates,
          age \in ProbeAges, now \in 1..MaxTime :
           probe = [directives |-> d, date |-> date, expires |-> expires,
                    age |-> age, now |-> now, checked |-> <<>>,
                    replaced |-> "none", before |-> <<>>, seen |-> {}]

\* The chain classifies the response.
Classify ==
    /\ probe.now # 0
    /\ probe.checked = <<>>
    /\ probe' = [probe EXCEPT !.checked = <<ProbeChecked(probe)>>]
    /\ UNCHANGED <<cache, clock, shouldCachePrivateResponses, inflight, call, parse,
                   arrivals, race>>

IsMaxAgeToken(token) == splitCacheControlKeyValue(token)[1] = cacheControlKeyMaxAge

\* The directive list without its max-age directives / with their values
\* replaced by a text that is no number.
RECURSIVE WithoutMaxAge(_)
WithoutMaxAge(tokens) ==
    IF tokens = <<>> THEN <<>>
    ELSE IF IsMaxAgeToken(Head(tokens)) THEN WithoutMaxAge(Tail(tokens))
    ELSE <<Head(tokens)>> \o WithoutMaxAge(Tail(tokens))

RECURSIVE WithBadMaxAge(_)
WithBadMaxAge(tokens) ==
    IF tokens = <<>> THEN <<>>
    ELSE IF IsMaxAgeToken(Head(tokens))
    THEN <<TokenMaxAgeText>> \o WithBadMaxAge(Tail(tokens))
    ELSE <<Head(tokens)>> \o WithBadMaxAge(Tail(tokens))

\* The probed response with one value replaced: which names the value,
\* missing says whether it is dropped or made unparsable.
Replace(p, which, missing) ==
    CASE which = "max-age" ->
             [p EXCEPT !.directives = IF missing THEN WithoutMaxAge(@)
                                      ELSE WithBadMaxAge(@)]
      [] which = "Age" -> [p EXCEPT !.age = IF missing THEN <<>> ELSE <<"x">>]
      [] which = "Date" -> [p EXCEPT !.date = IF missing THEN NoDate ELSE GarbageDate]
      [] which = "Expires" ->
             [p EXCEPT !.expires = IF missing THEN NoDate ELSE GarbageDate]

\* The response has a parseable value for which.
HasValue(p, which) ==
    CASE which = "max-age" -> ~MaxAge(newCacheControl(ProbeHeader(p))).err
      [] which = "Age" -> ~ageFromHeader(ProbeHeader(p)).err
      [] which = "Date" -> ~dateFromHeader(ProbeHeader(p)).err
      [] which = "Expires" -> ~expiresFromHeader(ProbeHeader(p)).err

\* One parseable value is replaced and the chain classifies the result.
Degrade ==
    /\ probe.checked # <<>>
    /\ probe.replaced = "none"
    /\ probe.seen = {}
    /\ \E which \in {"max-age", "Age", "Date", "Expires"}, missing \in BOOLEAN :
         /\ HasValue(probe, which)
         /\ \E q \in {Replace(probe, which, missing)} :
              probe' = [q EXCEPT !.checked = <<ProbeChecked(q)>>,
                                 !.replaced = which,
                                 !.before = probe.checked]
    /\ UNCHANGED <<cache, clock, shouldCachePrivateResponses, inflight, call, parse,
                   arrivals, race>>

\* The clock advances by a second and the chain classifies the same
\* headers again; seen keeps the verdicts of the earlier readings.
Later ==
    /\ probe.checked # <<>>
    /\ probe.replaced = "none"
    /\ probe.now < MaxTime
    /\ \E q \in {[probe EXCEPT !.now = @ + 1]} :
         probe' = [q EXCEPT !.checked = <<ProbeChecked(q)>>,
                            !.seen = @ \cup {probe.checked[1].freshness}]
    /\ UNCHANGED <<cache, clock, shouldCachePrivateResponses, inflight, call, parse,
                   arrivals, race>>

NextFresh == Classify \/ Degrade \/ Later

SpecFresh == InitFresh /\ [][NextFresh]_vars

----------------------------------------------------------------------------
\* The Cache-Control parser on its own: two header texts that differ at most
\* in the letter case of their directive names are drawn and parsed.

\* A directive as it is written: its name and, after "=", its value.
Directive(name, value) == [name |-> name, value |-> value]

ParseDirectives ==
    { Directive("max-age", <<"1">>), Directive("max-age", <<"2">>),
      Directive("Max-Age", <<"1">>), Directive("Max-Age", <<"2">>),
      Directive("private", <<>>), Directive("Private", <<>>) }

\* The directive name in lower case (strings.ToLower on the names written
\* in the texts).
ToLower(name) ==
    CASE name = "Max-Age" -> "max-age"
      [] name = "Private" -> "private"
      [] OTHER -> name

\* The directives that differ from d at most in the letter case of the name.
CaseVariants(d) ==
    { e \in ParseDirectives : ToLower(e.name) = ToLower(d.name) /\ e.value = d.value }

\* One occurrence of the header lists one or two directives.
ParseOccurrences ==
    { <<d>> : d \in ParseDirectives }
        \cup { <<d, e>> : d \in ParseDirectives, e \in ParseDirectives }

OccurrenceVariants(o) ==
    IF Len(o) = 1 THEN { <<d>> : d \in CaseVariants(o[1]) }
    ELSE { <<d, e>> : d \in CaseVariants(o[1]), e \in CaseVariants(o[2]) }

\* A header has one or two occurrences.
ParseHeaders ==
    { <<o>> : o \in ParseOccurrences }
        \cup { <<o, p>> : o \in ParseOccurrences, p \in ParseOccurrences }

HeaderVariants(a) ==
    IF Len(a) = 1 THEN { <<o>> : o \in OccurrenceVariants(a[1]) }
    ELSE { <<o, p>> : o \in OccurrenceVariants(a[1]), p \in OccurrenceVariants(a[2]) }

\* The text of a directive, of an occurrence, of the occurrences of a header.
DirectiveText(d) ==
    IF d.value = <<>> THEN <<d.name>> ELSE <<d.name, "=">> \o d.value

OccurrenceText(o) == JoinTokens([i \in 1..Len(o) |-> DirectiveText(o[i])])

HeaderTexts(a) == [i \in 1..Len(a) |-> OccurrenceText(a[i])]

\* The directive set newCacheControl builds from the header.
Parsed(a) ==
    newCacheControl(Header(HeaderTexts(a), NoDate, NoDate, <<>>, "", NoDate, ""))

InitParse ==
    /\ cache = EmptyCache
    /\ clock = 1
    /\ shouldCachePrivateResponses = FALSE
    /\ inflight = EmptyBag
    /\ call = NoCall
    /\ probe = NoProbe
    /\ arrivals = 0
    /\ race = NoRace
    /\ \E a \in ParseHeaders :
         \E b \in HeaderVariants(a) :
           parse = [a |-> a, b |-> b, done |-> FALSE, ccA |-> <<>>, ccB |-> <<>>]

\* Both texts are parsed.
Parse ==
    /\ parse.a # <<>>
    /\ ~parse.done
    /\ parse' = [parse EXCEPT !.done = TRUE,
                              !.ccA = Parsed(parse.a),
                              !.ccB = Parsed(parse.b)]
    /\ UNCHANGED <<cache, clock, shouldCachePrivateResponses, inflight, call, probe,
                   arrivals, race>>

NextParse == Parse

SpecParse == InitParse /\ [][NextParse]_vars

----------------------------------------------------------------------------
\* Reuse over time: requests for one resource keep arriving while the clock
\* advances.  The origin's responses carry the Date of second 1, so every
\* lifetime counted from the Date has run out when the clock reads MaxTime.

RequestA == Request("GET", "http://example.com/a", NoHeaders)

ReuseResponses ==
    { OK1(TextMaxAge2, HTTPDate(1), <<>>, "", NoDate, "", "dated"),
      OK1(TextMaxAge2, HTTPDate(1), <<"1">>, "", NoDate, "", "aged-1"),
      OK1(TextMaxAge0, HTTPDate(1), <<>>, "123", NoDate, "", "etag"),
      Response(StatusOK,
               Header(<<TextPublic>>, HTTPDate(1), HTTPDate(2), <<>>, "", NoDate, ""),
               "expires"),
      Response(StatusNotModified, Header(<<>>, NoDate, NoDate, <<>>, "", NoDate, ""),
               "") }

ReuseOutcomes ==
    { [err |-> FALSE, resp |-> <<o>>] : o \in ReuseResponses }
    \cup { [err |-> TRUE, resp |-> <<>>] }

InitReuse ==
    /\ cache = EmptyCache
    /\ clock = 1
    /\ shouldCachePrivateResponses = FALSE
    /\ inflight = EmptyBag
    /\ call = NoCall
    /\ probe = NoProbe
    /\ parse = NoParse
    /\ arrivals = 0
    /\ race = NoRace

\* One more request for the resource arrives: a caller enters RoundTrip.
Arrive ==
    /\ RoundTripGet(RequestA)
    /\ arrivals' = 1 - arrivals

\* The origin answers a waiting call.
Answer ==
    /\ \E c \in BagToSet(inflight) : \E outcome \in ReuseOutcomes :
         RoundTripReturn(c, outcome)
    /\ UNCHANGED arrivals

NextReuse == Arrive \/ Answer \/ Tick \/ Noted

\* A request has arrived: within NextReuse the steps that change the parity
\* are the steps of Arrive.
Arrival == arrivals' = 1 - arrivals

\* The clock has advanced: within NextReuse these are the steps of Tick.
Advance == clock < MaxTime /\ clock' = clock + 1

\* The origin has answered a waiting call: within NextReuse these are the
\* steps of Answer.
Answered ==
    /\ inflight # EmptyBag
    /\ \E c \in BagToSet(inflight) : inflight' = inflight (-) SetToBag({c})

\* The clock advances as long as it can, requests keep arriving and the
\* origin answers every fetch.
SpecReuse ==
    /\ InitReuse /\ [][NextReuse]_vars
    /\ WF_clock(Advance) /\ WF_arrivals(Arrival) /\ WF_inflight(Answered)

----------------------------------------------------------------------------
\* Concurrent calls: NumCalls callers run RoundTrip for the same request
\* over a store whose Get, Set and Delete are atomic.  A call reads the store,
\* then waits for the origin, then writes the store; the calls interleave
\* between these steps.

NumCalls == 2

Calls == 1..NumCalls

KeyA == buildCacheKey(RequestA)

\* The representation the origin serves to the n-th fetch it answers.
Representation(n) ==
    OK1(TextMaxAge2, HTTPDate(1), <<>>, "123", NoDate, "", "v" \o ToString(n))

\* The origin answers its n-th fetch with its current representation, with
\* 304 Not Modified, or the transport fails.
RaceOutcomes(n) ==
    { [err |-> FALSE, resp |-> <<Representation(n)>>],
      [err |-> FALSE,
       resp |-> <<Response(StatusNotModified,
                           Header(<<>>, NoDate, NoDate, <<>>, "", NoDate, ""), "")>>],
      [err |-> TRUE, resp |-> <<>>] }

\* The entries the store may hold when the calls start: none, a stale one,
\* a stale one that forbids storage (left by an earlier revalidation), a
\* fresh one.
RaceEntries ==
    { <<>>,
      <<OK1(TextMaxAge0, HTTPDate(1), <<>>, "123", NoDate, "", "v0")>>,
      <<OK1(TextMaxAge0NoStore, HTTPDate(1), <<>>, "123", NoDate, "", "v0")>>,
      <<OK1(TextMaxAge2, HTTPDate(1), <<>>, "123", NoDate, "", "v0")>> }

\* Of each call: its position, what its Get returned, the case it is in,
\* the origin's answer to its fetch, the rank of that answer among the
\* answers, and the operation it performed on the store; then the number of
\* answers so far, the call that wrote the store last, and the entry the
\* store held at the start.
InitRace ==
    /\ clock = 1
    /\ shouldCachePrivateResponses = FALSE
    /\ inflight = EmptyBag
    /\ call = NoCall
    /\ probe = NoProbe
    /\ parse = NoParse
    /\ arrivals = 0
    /\ \E e \in RaceEntries :
         /\ cache = [EmptyCache EXCEPT ![KeyA] = e]
         /\ race = [pc |-> [p \in Calls |-> "get"],
                    got |-> [p \in Calls |-> <<>>],
                    path |-> [p \in Calls |-> "none"],
                    fetched |-> [p \in Calls |-> <<>>],
                    order |-> [p \in Calls |-> 0],
                    wrote |-> [p \in Calls |-> "none"],
                    fetches |-> 0, lastWrite |-> 0, initial |-> e]

\* The call enters RoundTrip and reads the store; a Fresh entry ends the
\* call, otherwise it goes on to fetch.
RaceGet(p) ==
    /\ race.pc # <<>>
    /\ race.pc[p] = "get"
    /\ \E b \in {beforeFetch(cache, clock, RequestA)} :
         race' = [race EXCEPT !.got[p] = b.got,
                              !.path[p] = IF b.done THEN b.result.path ELSE b.path,
                              !.pc[p] = IF b.done THEN "done" ELSE "fetch"]
    /\ UNCHANGED <<cache, clock, shouldCachePrivateResponses, inflight, call, probe,
                   parse, arrivals>>

\* The origin answers the fetch of the call.
RaceFetch(p) ==
    /\ race.pc # <<>>
    /\ race.pc[p] = "fetch"
    /\ \E outcome \in RaceOutcomes(race.fetches + 1) :
         race' = [race EXCEPT !.fetched[p] = <<outcome>>,
                              !.order[p] = race.fetches + 1,
                              !.fetches = @ + 1,
                              !.pc[p] = "write"]
    /\ UNCHANGED <<cache, clock, shouldCachePrivateResponses, inflight, call, probe,
                   parse, arrivals>>

\* The call runs RoundTrip from the answer to its return, on the store as it
\* is now: Set, Delete or nothing.
RaceWrite(p) ==
    /\ race.pc # <<>>
    /\ race.pc[p] = "write"
    /\ \E res \in {afterFetch(cache, shouldCachePrivateResponses, race.path[p],
                              race.got[p], RequestA, race.fetched[p][1])} :
         /\ cache' = res.cache
         /\ race' = [race EXCEPT
                        !.wrote[p] = IF res.ops = <<>> THEN "none" ELSE res.ops[1],
                        !.lastWrite = IF res.ops = <<>> THEN @ ELSE p,
                        !.pc[p] = "done"]
    /\ UNCHANGED <<clock, shouldCachePrivateResponses, inflight, call, probe,
                   parse, arrivals>>

NextRace == \E p \in Calls : RaceGet(p) \/ RaceFetch(p) \/ RaceWrite(p)

SpecRace == InitRace /\ [][NextRace]_vars

----------------------------------------------------------------------------
\* Vocabulary of the properties.  The call that just returned is in call:
\* its request, what its Get returned, the case it took, the origin's answer
\* to its fetch (if it made one), its result, and the store before the step
\* in which it returned.  Between the Get of a call and its return other
\* calls and the embedding program may have changed the store; "the call
\* leaves the store unchanged" reads: no step of the call changes it.

Called == call.step = "returned"

\* The call has just gone on to fetch and waits for the origin.
Sent == call.step = "sent"

\* The record was made in the step of the call's Get: now is the clock
\* reading of the Get.
AtGet == Sent \/ (Called /\ call.fetched = <<>>)

CallKey == buildCacheKey(call.r)

\* The entry the call found in the store (defined when HadEntry).
HadEntry == Called /\ call.got # <<>>

StoredEntry == call.got[1]

StoredCacheControl == newCacheControl(StoredEntry.Header)

\* The classification the pipeline gave the entry when the call read it.
StoredFreshness == call.path

\* The origin answered the call's fetch with a response / with an error.
FetchSucceeded == Called /\ call.fetched # <<>> /\ ~call.fetched[1].err

FetchFailed == Called /\ call.fetched # <<>> /\ call.fetched[1].err

OriginResponse == call.fetched[1].resp[1]

NotModified == FetchSucceeded /\ OriginResponse.StatusCode = StatusNotModified

Tagged(resp) == resp.Header["X-Cache"] = "HIT"

\* The stored entry with the cache-hit marker set.
TaggedEntry == [StoredEntry EXCEPT !.Header = [@ EXCEPT !["X-Cache"] = "HIT"]]

\* The miss-path rules of storability, stated on the directive set.
Storable(resp) ==
    LET c == newCacheControl(resp.Header)
    IN  /\ IsPresent(c)
        /\ ~NoStore(c)
        /\ ~NoCache(c)
        /\ ~NoCacheEquivalent(c)
        /\ (Private(c) => shouldCachePrivateResponses)

StaleHit == HadEntry /\ StoredFreshness = FreshnessStale

FreshHit == HadEntry /\ StoredFreshness = FreshnessFresh

TransparentHit == HadEntry /\ StoredFreshness = FreshnesTransparent

Miss == Called /\ call.got = <<>>

\* Outcome Replaced: a Stale hit whose revalidation fetch returned a response
\* other than "not modified".
Replaced == StaleHit /\ FetchSucceeded /\ ~NotModified

\* Outcome Validated.
Validated == StaleHit /\ NotModified

----------------------------------------------------------------------------
\* Properties of RoundTrip.

\* C1: on a Stale hit whose revalidation is answered with anything other than
\* "not modified", the call overwrites the stored entry with the new response
\* exactly when the new response is storable under the miss-path rules, and
\* returns the new response without the cache-hit marker.
C1_ReplacedStoredIffStorable ==
    Replaced =>
        /\ call.resp = <<OriginResponse>>
        /\ ~Tagged(call.resp[1])
        /\ IF Storable(OriginResponse)
           THEN /\ call.ops = <<"Set">>
                /\ cache = [call.before EXCEPT ![CallKey] = <<OriginResponse>>]
           ELSE call.ops # <<"Set">> /\ cache[CallKey] # <<OriginResponse>>

\* C2: on a miss with a successful fetch the call returns the fetched
\* response, and stores it under the request's key if and only if it is
\* storable; when it is not stored the store is unchanged.
C2_MissStoresIffStorable ==
    (Miss /\ FetchSucceeded) =>
        /\ call.resp = <<OriginResponse>>
        /\ ~call.err
        /\ IF Storable(OriginResponse)
           THEN /\ call.ops = <<"Set">>
                /\ cache = [call.before EXCEPT ![CallKey] = <<OriginResponse>>]
           ELSE call.ops = <<>> /\ cache = call.before

\* A miss that stored a private response, private caching being enabled.
C2_Witness ==
    /\ Miss /\ FetchSucceeded
    /\ Private(newCacheControl(OriginResponse.Header))
    /\ shouldCachePrivateResponses
    /\ cache[CallKey] = <<OriginResponse>>

\* C3: when the store holds an entry for the request's key and the pipeline
\* classifies it Fresh, the call returns the stored response with its status
\* code, tagged X-Cache: HIT, sends nothing to the origin and leaves the
\* store unchanged.
C3_FreshHitServedFromStore ==
    FreshHit =>
        /\ call.resp = <<TaggedEntry>>
        /\ call.resp[1].StatusCode = StoredEntry.StatusCode
        /\ Tagged(call.resp[1])
        /\ ~call.err
        /\ call.sent = <<>>
        /\ call.ops = <<>>
        /\ cache = call.before

\* A Fresh hit on an entry that did not carry the marker when it was stored.
C3_Witness ==
    /\ FreshHit
    /\ ~Tagged(StoredEntry)
    /\ Tagged(call.resp[1])
    /\ call.sent = <<>>

\* C4: after a miss that stored a response with max-age = N > 0 and a
\* parseable Date, every later call for the same request made while
\* now < Date + N returns the response tagged X-Cache: HIT without a fetch;
\* the response of the miss itself is returned untagged.  (The entries a
\* miss stores are the storable ones; a call that finds such an entry must
\* return it in the step of its Get.)
C4_FreshAfterMiss ==
    /\ (Miss /\ FetchSucceeded) => ~Tagged(call.resp[1])
    /\ ( /\ AtGet
         /\ call.got # <<>>
         /\ Storable(StoredEntry)
         /\ ~MaxAge(StoredCacheControl).err
         /\ MaxAge(StoredCacheControl).v > 0
         /\ ~dateFromHeader(StoredEntry.Header).err
         /\ call.now < dateFromHeader(StoredEntry.Header).t
                          + MaxAge(StoredCacheControl).v )
       => (Called /\ call.resp = <<TaggedEntry>> /\ call.sent = <<>>)

\* C5: when the fetch fails the call returns the error and no response, and
\* the store is as it was before the call: nothing stored on a miss, nothing
\* overwritten or deleted on a Stale hit (also for a no-store entry), and the
\* stale copy is not served.
C5_FetchErrorLeavesStore ==
    FetchFailed =>
        /\ call.err
        /\ call.resp = <<>>
        /\ call.ops = <<>>
        /\ cache = call.before

\* A Stale hit on a no-store entry whose revalidation fetch failed.
C5_Witness ==
    /\ StaleHit /\ FetchFailed
    /\ NoStore(StoredCacheControl)
    /\ call.err
    /\ cache[CallKey] = <<StoredEntry>>

\* C6: when a no-store entry is classified Stale and its revalidation fetch
\* succeeds, the call serves the revalidation result (the stored response
\* tagged HIT if the origin answered "not modified") and deletes the entry;
\* the next call for the key finds no entry, takes the miss path and fetches
\* (a call whose Get finds no entry goes on to fetch, once).
C6_NoStoreEntryDeleted ==
    /\ (StaleHit /\ NoStore(StoredCacheControl) /\ FetchSucceeded) =>
           /\ call.resp = IF NotModified THEN <<TaggedEntry>> ELSE <<OriginResponse>>
           /\ ~call.err
           /\ call.ops = <<"Delete">>
           /\ cache = [call.before EXCEPT ![CallKey] = <<>>]
    /\ (AtGet /\ call.got = <<>>) => (Sent /\ call.path = "miss")
    /\ Miss => (call.path = "miss" /\ Len(call.sent) = 1)

\* A no-store entry validated by "not modified": served as HIT, then deleted.
C6_Witness ==
    /\ StaleHit /\ NoStore(StoredCacheControl) /\ NotModified
    /\ Tagged(call.resp[1])
    /\ cache[CallKey] = <<>>

\* C7: when an entry without no-store is classified Stale and the origin
\* answers "not modified", the call returns the stored response tagged
\* X-Cache: HIT and performs no Set and no Delete: the store is unchanged.
C7_ValidatedKeepsStore ==
    (Validated /\ ~NoStore(StoredCacheControl)) =>
        /\ call.resp = <<TaggedEntry>>
        /\ Tagged(call.resp[1])
        /\ ~call.err
        /\ call.ops = <<>>
        /\ cache = call.before

\* An entry with an ETag validated by "not modified".
C7_Witness ==
    /\ Validated /\ ~NoStore(StoredCacheControl)
    /\ StoredEntry.Header["Etag"] = "123"
    /\ Tagged(call.resp[1])
    /\ cache[CallKey] = <<StoredEntry>>

\* C8: a returned response carries X-Cache: HIT if and only if it was served
\* from the store (the entry was Fresh, or Validated by "not modified"),
\* whatever headers the origin's response carries.
C8_MarkerIffServedFromStore ==
    (Called /\ ~call.err) => (Tagged(call.resp[1]) <=> (FreshHit \/ Validated))

\* C9: the revalidation request of a Stale hit has the caller's method and
\* URL, carries If-None-Match equal to the entry's ETag and If-Modified-Since
\* equal to the entry's Last-Modified when the entry has them, and carries
\* neither header for a validator the entry lacks.
C9_ConditionalRequest ==
    StaleHit =>
        /\ Len(call.sent) = 1
        /\ LET q    == call.sent[1]
               etag == StoredEntry.Header["Etag"]
               lm   == StoredEntry.Header["Last-Modified"]
           IN  /\ q.Method = call.r.Method
               /\ q.URL = call.r.URL
               /\ IF etag # "" THEN /\ "If-None-Match" \in DOMAIN q.Header
                                    /\ q.Header["If-None-Match"] = etag
                  ELSE "If-None-Match" \notin DOMAIN q.Header
               /\ IF lm # NoDate THEN /\ "If-Modified-Since" \in DOMAIN q.Header
                                      /\ q.Header["If-Modified-Since"] = lm
                  ELSE "If-Modified-Since" \notin DOMAIN q.Header

\* A Stale hit on an entry with an ETag and no Last-Modified.
C9_Witness ==
    /\ StaleHit
    /\ StoredEntry.Header["Etag"] = "123"
    /\ StoredEntry.Header["Last-Modified"] = NoDate
    /\ DOMAIN call.sent[1].Header = {"If-None-Match"}

\* C10: a call sends at most one request to the origin: none when the entry
\* is Fresh, exactly one on a miss, a Stale hit and a Transparent hit; a
\* failed fetch is not retried.
C10_AtMostOneFetch ==
    Called =>
        /\ Len(call.sent) <= 1
        /\ FreshHit => Len(call.sent) = 0
        /\ (Miss \/ StaleHit \/ TransparentHit) => Len(call.sent) = 1
        /\ FetchFailed => (call.err /\ Len(call.sent) = 1)

\* A Transparent hit whose fetch failed.
C10_Witness ==
    /\ TransparentHit /\ FetchFailed
    /\ Len(call.sent) = 1
    /\ call.err

\* C11: on a Transparent hit the call returns the result (response or error)
\* of one normal fetch of the caller's request, stores nothing, leaves the
\* stored entry as it was, and the returned response is not tagged as a hit.
C11_TransparentBypass ==
    TransparentHit =>
        /\ call.sent = <<call.r>>
        /\ call.err = call.fetched[1].err
        /\ call.resp = call.fetched[1].resp
        /\ call.ops = <<>>
        /\ cache = call.before
        /\ FetchSucceeded => ~Tagged(call.resp[1])

----------------------------------------------------------------------------
\* The vocabulary of the claims on the freshness pipeline.

\* The chain has classified the probed response.
Classified == probe.checked # <<>>

Verdict == probe.checked[1].freshness

ProbedHeader == ProbeHeader(probe)

ProbedCacheControl == newCacheControl(ProbedHeader)

ProbedMaxAge == MaxAge(ProbedCacheControl)

ProbedAge == ageFromHeader(ProbedHeader)

ProbedDate == dateFromHeader(ProbedHeader)

ProbedExpires == expiresFromHeader(ProbedHeader)

\* The response asks for revalidation on every reuse.
MandatoryRevalidation ==
    NoCache(ProbedCacheControl) \/ NoCacheEquivalent(ProbedCacheControl)

\* C12: a response whose directives satisfy NoCache or NoCacheEquivalent is
\* classified Stale, whatever its max-age, Age, Date, Expires and the clock.
C12_MandatoryRevalidationStale ==
    (Classified /\ MandatoryRevalidation) => Verdict = FreshnessStale

\* Reached: max-age=0 must-revalidate with a negative Age, which the Age
\* stage alone would call fresh.
C12_Witness ==
    /\ Classified
    /\ Verdict = FreshnessStale
    /\ ~ProbedMaxAge.err /\ ~ProbedAge.err
    /\ freshnessFromAge(ProbedAge.v, ProbedMaxAge.v) = FreshnessFresh
    /\ NoCacheEquivalent(ProbedCacheControl)
    /\ ~NoCache(ProbedCacheControl)

\* C13: without mandatory revalidation, when max-age and Age both parse to
\* integers the classification is Fresh if MaxAge - Age > 0 and Stale
\* otherwise, whatever Date, Expires and the clock are.
C13_AgeStage ==
    (Classified /\ ~MandatoryRevalidation /\ ~ProbedMaxAge.err /\ ~ProbedAge.err)
        => Verdict = IF ProbedMaxAge.v - ProbedAge.v > 0
                     THEN FreshnessFresh ELSE FreshnessStale

\* Reached: Age equal to max-age is Stale although the Date would still
\* put the response inside its max-age window.
C13_Witness ==
    /\ Classified /\ ~MandatoryRevalidation
    /\ ~ProbedMaxAge.err /\ ~ProbedAge.err
    /\ ProbedMaxAge.v = ProbedAge.v
    /\ ~ProbedDate.err /\ probe.now < ProbedDate.t + ProbedMaxAge.v
    /\ Verdict = FreshnessStale

\* C14: without mandatory revalidation, when max-age parses to an integer,
\* no integer Age is present and Date parses, the classification is Stale if
\* MaxAge <= 0; otherwise it is Fresh when now < Date + MaxAge seconds and
\* Stale when now >= Date + MaxAge seconds (equality is Stale).
C14_MaxAgeDateStage ==
    (Classified /\ ~MandatoryRevalidation /\ ~ProbedMaxAge.err /\ ProbedAge.err
       /\ ~ProbedDate.err)
        => Verdict = IF ProbedMaxAge.v <= 0 THEN FreshnessStale
                     ELSE IF probe.now < ProbedDate.t + ProbedMaxAge.v
                     THEN FreshnessFresh ELSE FreshnessStale

\* C15: without mandatory revalidation, when max-age parses to an integer,
\* no integer Age is present and Date is missing or unparsable, the
\* classification is Stale, whatever Expires is.
C15_MaxAgeWithoutDate ==
    (Classified /\ ~MandatoryRevalidation /\ ~ProbedMaxAge.err /\ ProbedAge.err
       /\ ProbedDate.err)
        => Verdict = FreshnessStale

\* C16: a response whose max-age parses to an integer <= 0 and whose Date
\* parses is classified Stale, for every Age, Expires, other directive and
\* clock reading.
C16_NonPositiveMaxAgeStale ==
    (Classified /\ ~ProbedMaxAge.err /\ ProbedMaxAge.v <= 0 /\ ~ProbedDate.err)
        => Verdict = FreshnessStale

\* The max-age directive is missing or is no number.
NoMaxAge == ProbedMaxAge.err

\* C17 as stated: without mandatory revalidation and without a numeric
\* max-age, when Expires and Date both parse the classification is Fresh if
\* Expires >= Date and Stale if Expires < Date; when Expires is missing or
\* unparsable it is Transparent.
C17_ExpiresStage_AsStated ==
    (Classified /\ ~MandatoryRevalidation /\ NoMaxAge)
        => /\ (~ProbedExpires.err /\ ~ProbedDate.err)
                => Verdict = IF ProbedExpires.t >= ProbedDate.t
                             THEN FreshnessFresh ELSE FreshnessStale
           /\ ProbedExpires.err => Verdict = FreshnesTransparent

\* C17: without mandatory revalidation and without a numeric max-age, when
\* Expires and Date both parse and Expires is not the zero time the
\* classification is Fresh if Expires >= Date and Stale if Expires < Date;
\* when Expires is missing, unparsable or the zero time it is Transparent.
C17_ExpiresStage ==
    (Classified /\ ~MandatoryRevalidation /\ NoMaxAge)
        => /\ (~ProbedExpires.err /\ ProbedExpires.t # ZeroTime /\ ~ProbedDate.err)
                => Verdict = IF ProbedExpires.t >= ProbedDate.t
                             THEN FreshnessFresh ELSE FreshnessStale
           /\ (ProbedExpires.err \/ ProbedExpires.t = ZeroTime)
                => Verdict = FreshnesTransparent

\* Reached: an Expires that parses to the zero time beside a later Date is
\* Transparent, not Stale.
C17_Witness ==
    /\ Classified /\ ~MandatoryRevalidation /\ NoMaxAge
    /\ ~ProbedExpires.err /\ ~ProbedDate.err
    /\ ProbedExpires.t = ZeroTime /\ ProbedDate.t > ZeroTime
    /\ Verdict = FreshnesTransparent

\* The response carries no Age header, no max-age directive and no Expires
\* header.
NoSignals ==
    /\ probe.age = <<>>
    /\ cacheControlKeyMaxAge \notin DOMAIN ProbedCacheControl
    /\ probe.expires = NoDate

\* C18 as stated: a response with no Age header, no max-age directive and
\* no Expires header is classified Transparent.
C18_NoSignalsTransparent_AsStated ==
    (Classified /\ NoSignals) => Verdict = FreshnesTransparent

\* C18: a response with no Age header, no max-age directive and no Expires
\* header whose directives do not satisfy NoCache or NoCacheEquivalent is
\* classified Transparent; one whose directives do is classified Stale.
C18_NoSignalsTransparent ==
    (Classified /\ NoSignals)
        => Verdict = IF MandatoryRevalidation THEN FreshnessStale
                     ELSE FreshnesTransparent

\* Reached: a dated response with the single directive public is
\* Transparent.
C18_Witness ==
    /\ Classified /\ NoSignals /\ ~MandatoryRevalidation
    /\ Public(ProbedCacheControl)
    /\ ~ProbedDate.err
    /\ Verdict = FreshnesTransparent

\* One value of a classified response was replaced by a missing or an
\* unparsable one and the chain has classified the result.
Degraded == probe.replaced # "none"

WasStale == probe.before[1].freshness = FreshnessStale

\* C19 as stated: when a response is classified Stale, replacing the value
\* of one of max-age, Age, Date or Expires by a missing or unparsable value
\* never yields Fresh, and the evaluation never returns an error.
C19_DegradesSafely_AsStated ==
    (Degraded /\ WasStale) => (Verdict # FreshnessFresh /\ ~probe.checked[1].err)

\* C19: when a response is classified Stale, replacing the value of Date or
\* Expires by a missing or unparsable value never yields Fresh; no
\* evaluation returns an error, whichever of max-age, Age, Date or Expires
\* was replaced.
C19_DegradesSafely ==
    /\ Classified => ~probe.checked[1].err
    /\ (Degraded /\ WasStale /\ probe.replaced \in {"Date", "Expires"})
           => Verdict # FreshnessFresh

\* Reached: a response that was Stale because its Expires lies before its
\* Date is Transparent once the Date is gone.
C19_Witness ==
    /\ Degraded /\ WasStale
    /\ probe.replaced = "Date"
    /\ NoMaxAge
    /\ ~ProbedExpires.err /\ ProbedExpires.t # ZeroTime
    /\ Verdict = FreshnesTransparent
    /\ ~probe.checked[1].err

----------------------------------------------------------------------------
\* The vocabulary of the claim on the parser.

\* The directives of a header in the order they are written.
Written(a) == IF Len(a) = 1 THEN a[1] ELSE a[1] \o a[2]

\* The value of the last directive of ds that is named name once names are
\* put in lower case.
RECURSIVE LastValue(_, _)
LastValue(ds, name) ==
    IF ToLower(ds[Len(ds)].name) = name THEN ds[Len(ds)].value
    ELSE LastValue(SubSeq(ds, 1, Len(ds) - 1), name)

\* The directive set maps every written name, in lower case, to the value of
\* its last occurrence and holds no other name.
LastOccurrenceKept(a, cc) ==
    /\ DOMAIN cc = { <<ToLower(Written(a)[i].name)>> : i \in 1..Len(Written(a)) }
    /\ \A i \in 1..Len(Written(a)) :
         cc[<<ToLower(Written(a)[i].name)>>]
             = LastValue(Written(a), ToLower(Written(a)[i].name))

\* C20: the directive set maps case-normalized directive names to values:
\* two header texts that differ only in the letter case of directive names
\* produce equal directive sets, and of a directive that occurs several
\* times the value of the last occurrence is kept.
C20_CaseNormalizedDirectives ==
    parse.done =>
        /\ parse.ccA = parse.ccB
        /\ LastOccurrenceKept(parse.a, parse.ccA)

----------------------------------------------------------------------------
\* The claims on the behaviour of the transport over time.

\* C21: starting from an empty store, after any sequence of RoundTrip calls
\* every entry of the store is storable under the rules of the miss path: it
\* has a Cache-Control header, asserts no no-store, no no-cache and no
\* no-cache-equivalent combination, and is private only when private caching
\* is enabled.
C21_StoreInvariant ==
    \A k \in Keys : cache[k] # <<>> => Storable(cache[k][1])

\* A call for key k has contacted the origin: it has just gone on to fetch.
Contacted(k) == Sent /\ CallKey = k

\* C22: for every stored entry, if the clock advances and requests for its
\* key keep arriving, eventually a RoundTrip for that key contacts the
\* origin: no entry is served from the store forever.
C22_BoundedReuse ==
    \A k \in Keys : [](cache[k] # <<>> => <>Contacted(k))

\* The same headers were classified at earlier clock readings.
Reclassified == Classified /\ probe.seen # {}

\* C23: for fixed headers and directives and a non-decreasing clock, once
\* the pipeline has classified the response Stale it never classifies it
\* Fresh at a later clock reading, and a Transparent classification never
\* changes with time.
C23_MonotoneInTime ==
    Reclassified =>
        /\ FreshnessStale \in probe.seen => Verdict # FreshnessFresh
        /\ FreshnesTransparent \in probe.seen => Verdict = FreshnesTransparent
        /\ Verdict = FreshnesTransparent => probe.seen = {FreshnesTransparent}

\* Reached: a response that was Fresh, then Stale, is Stale again a second
\* later.
C23_Witness ==
    /\ Reclassified
    /\ FreshnessFresh \in probe.seen
    /\ FreshnessStale \in probe.seen
    /\ Verdict = FreshnessStale

----------------------------------------------------------------------------
\* The claim on concurrent calls.

\* Every concurrent call has returned.
AllDone == race.pc # <<>> /\ \A p \in Calls : race.pc[p] = "done"

\* The origin answered the fetch of call p with a response.
RaceAnswered(p) == race.fetched[p] # <<>> /\ ~race.fetched[p][1].err

\* The response the origin gave to the fetch of call p.
RaceFetched(p) == race.fetched[p][1].resp[1]

\* Call p found a Stale entry.
RaceStale(p) == race.got[p] # <<>> /\ race.path[p] = FreshnessStale

\* By its Get and the origin's answer, call p is to delete the entry: the
\* entry it found is Stale and forbids storage, and its fetch succeeded.
RaceDeletes(p) ==
    /\ RaceAnswered(p)
    /\ RaceStale(p)
    /\ NoStore(newCacheControl(race.got[p][1].Header))

\* By its Get and the origin's answer, call p is to store the response it
\* fetched: a miss with a storable response, or a Stale entry that allows
\* storage and a response other than "not modified".
RaceStores(p) ==
    /\ RaceAnswered(p)
    /\ IF race.got[p] = <<>> THEN Storable(RaceFetched(p))
       ELSE /\ RaceStale(p)
            /\ ~NoStore(newCacheControl(race.got[p][1].Header))
            /\ RaceFetched(p).StatusCode # StatusNotModified
            /\ ~Tagged(RaceFetched(p))

\* The calls that are to store the response they fetched.
Storers == { p \in Calls : RaceStores(p) }

\* The call whose fetch the origin answered last among those that stored.
LastFetchedStorer ==
    CHOOSE p \in Storers : \A q \in Storers : race.order[q] <= race.order[p]

\* C24 as stated: once all concurrent calls for a key have completed, the
\* entry left in the store is the response of the origin fetch that
\* completed last among the calls that stored, never an older
\* representation.
C24_LastFetchStored_AsStated ==
    (AllDone /\ Storers # {}) => cache[KeyA] = <<RaceFetched(LastFetchedStorer)>>

\* C24: once all concurrent calls for a key have completed, every call has
\* written what its own Get and its own fetch call for (the response it
\* fetched, a Delete, or nothing), and the store holds what the call that
\* wrote last left there: the response that call fetched, or no entry after
\* its Delete; when no call wrote, the entry is the one the store held
\* before the calls.  That response may be an older representation than one
\* another call fetched later.
C24_LastWriteWins ==
    AllDone =>
        /\ \A p \in Calls :
             race.wrote[p] = IF RaceStores(p) THEN "Set"
                             ELSE IF RaceDeletes(p) THEN "Delete" ELSE "none"
        /\ race.lastWrite # 0 =>
             cache[KeyA] = IF RaceDeletes(race.lastWrite) THEN <<>>
                           ELSE <<RaceFetched(race.lastWrite)>>
        /\ race.lastWrite = 0 => cache[KeyA] = race.initial

\* Reached: two calls stored, and the store is left with the response of
\* the earlier fetch because its Set ran last.
C24_Witness ==
    /\ AllDone
    /\ \E p \in Storers, q \in Storers :
         /\ race.order[p] < race.order[q]
         /\ race.lastWrite = p
         /\ race.wrote[p] = "Set" /\ race.wrote[q] = "Set"
         /\ cache[KeyA] = <<RaceFetched(p)>>
         /\ cache[KeyA] # <<RaceFetched(q)>>

====
